---- MODULE Spec2Model ----
(***************************************************************************)
(* Model of ord/utils.py: the flattener (flatten), the leaf-path resolver  *)
(* (flat_deepdiff_entry), the diff classifier (parse_deepdiff), the        *)
(* brute-force best-match solver (find_best_match) and the timeout         *)
(* decorator (timeout).                                                    *)
(***************************************************************************)
EXTENDS Integers, Sequences, FiniteSets, TLC

VARIABLES
    indices1,          \* find_best_match: first index list
    indices2,          \* find_best_match: second index list, may hold NoneIndex
    distance_matrix,   \* find_best_match: distance_matrix[i1][i2]
    match_pc,          \* "call" | "returned" | "raised"
    match_result,      \* the returned dict (a function), <<>> before the return
    dictionary,        \* flatten: the structure passed in
    flatten_pc,        \* "call" | "returned"
    flatten_result,    \* the returned dict: a sequence of <<path, value>> items
    root_t1,           \* parse_deepdiff: the structure on the A side of the diff
    root_t2,           \* parse_deepdiff: the structure on the B side of the diff
    dd,                \* the diff report: deep_distance and the DiffLevel entries
    parse_pc,          \* "call" | "returned" | "raised"
    parse_result,      \* the returned tuple (a record of lists)
    seconds,           \* timeout: the decorator's deadline, in clock ticks
    func_left,         \* steps the wrapped function still has to run
    func_end,          \* how the wrapped function ends when left alone
    wrapper_pc,        \* where the wrapper is
    timer,             \* ITIMER_REAL: ticks until SIGALRM, 0 when disarmed
    sig_pending,       \* SIGALRM arrived, signal_handler has not run yet
    pending_exit,      \* what the wrapper is about to exit with
    outcome,           \* what the wrapper exited with
    expired_at,        \* where the wrapper was when the deadline expired
    completed_in_time  \* the function returned before the deadline expired

match_vars == <<indices1, indices2, distance_matrix, match_pc, match_result>>

flatten_vars == <<dictionary, flatten_pc, flatten_result>>

parse_vars == <<root_t1, root_t2, dd, parse_pc, parse_result>>

timeout_vars == <<seconds, func_left, func_end, wrapper_pc, timer, sig_pending,
                  pending_exit, outcome, expired_at, completed_in_time>>

vars == <<match_vars, flatten_vars, parse_vars, timeout_vars>>

(***************************************************************************)
(* Bounds                                                                  *)
(***************************************************************************)
\* longest index list given to find_best_match
MaxLen == 2

\* the distances a matrix entry may take (non-negative, finite)
Dists == {0, 1, 3}

\* most nodes (scalars, mappings, sequences) of a structure given to flatten
MaxNodes == 4

\* the mapping keys and scalar values structures are built from
Keys == {"x", "y"}

Scalars == {"s"}

\* most entries of a diff report
MaxEntries == 2

\* the deep_distance values a report may carry
DeepDistances == {0, 1}

\* longest deadline, and longest run of the wrapped function, in ticks/steps
MaxSeconds == 2

MaxWork == 2

(***************************************************************************)
(* Small helpers                                                           *)
(***************************************************************************)
Range(s) == {s[i] : i \in 1..Len(s)}

Min2(a, b) == IF a <= b THEN a ELSE b

\* all sequences over S of length exactly n / at most n
RECURSIVE SeqsOfLen(_, _)
SeqsOfLen(S, n) ==
    IF n = 0 THEN {<<>>}
    ELSE {Append(s, e) : s \in SeqsOfLen(S, n - 1), e \in S}

SeqsUpTo(S, n) == UNION {SeqsOfLen(S, k) : k \in 0..n}

RECURSIVE Concat(_)
Concat(ss) == IF ss = <<>> THEN <<>> ELSE Head(ss) \o Concat(Tail(ss))

(***************************************************************************)
(* find_best_match                                                         *)
(***************************************************************************)
\* the placeholder None of indices2 (real indices are naturals)
NoneIndex == 0 - 1

\* math.inf: larger than every total of finite distances in the model
Inf == 1000000

\* itertools.permutations(range(n), r) as tuples of positions 1..n, in the
\* order itertools emits them: lexicographic in the positions
RECURSIVE PermsFrom(_, _, _, _)
PermsFrom(prefix, p, n, r) ==
    IF Len(prefix) = r THEN <<prefix>>
    ELSE IF p > n THEN <<>>
    ELSE (IF p \in Range(prefix) THEN <<>>
          ELSE PermsFrom(Append(prefix, p), 1, n, r))
         \o PermsFrom(prefix, p + 1, n, r)

\* the tuples of elements at the given tuples of positions
RECURSIVE ElementsAt(_, _)
ElementsAt(pos, idx2) ==
    IF pos = <<>> THEN <<>>
    ELSE <<[j \in 1..Len(Head(pos)) |-> idx2[Head(pos)[j]]]>>
         \o ElementsAt(Tail(pos), idx2)

\* faulty variant of MatchSpace: positions may repeat (itertools.product)
RECURSIVE ProductFrom(_, _, _, _)
ProductFrom(prefix, p, n, r) ==
    IF Len(prefix) = r THEN <<prefix>>
    ELSE IF p > n THEN <<>>
    ELSE ProductFrom(Append(prefix, p), 1, n, r)
         \o ProductFrom(prefix, p + 1, n, r)

MatchSpaceWithRepetition(idx2, r) ==
    ElementsAt(ProductFrom(<<>>, 1, Len(idx2), r), idx2)

\* faulty variant of MatchSpace: r capped at len(indices2)
MatchSpaceTruncated(idx2, r) ==
    ElementsAt(PermsFrom(<<>>, 1, Len(idx2), Min2(r, Len(idx2))), idx2)

\* itertools.permutations(indices2, r=len(indices1)): the tuples of elements
MatchSpace(idx2, r) ==
    ElementsAt(PermsFrom(<<>>, 1, Len(idx2), r), idx2)

\* faulty variant of MatchDistance: a None pair is charged more than any distance
RECURSIVE MatchDistanceNoneCharged(_, _, _)
MatchDistanceNoneCharged(idx1, match, dm) ==
    IF idx1 = <<>> \/ match = <<>> THEN 0
    ELSE (IF Head(match) = NoneIndex THEN 10 ELSE dm[Head(idx1)][Head(match)])
         + MatchDistanceNoneCharged(Tail(idx1), Tail(match), dm)

\* the inner loop: zip(indices1, match), None pairs skipped
RECURSIVE MatchDistance(_, _, _)
MatchDistance(idx1, match, dm) ==
    IF idx1 = <<>> \/ match = <<>> THEN 0
    ELSE (IF Head(match) = NoneIndex THEN 0 ELSE dm[Head(idx1)][Head(match)])
         + MatchDistance(Tail(idx1), Tail(match), dm)

\* faulty variant of Improves: a tie replaces the best candidate too
ImprovesOrTies(match_distance, best_match_distance) ==
    match_distance <= best_match_distance

\* the comparison that replaces the best candidate
Improves(match_distance, best_match_distance) ==
    match_distance < best_match_distance

\* the outer loop over match_space, from candidate k on
RECURSIVE BestMatchLoop(_, _, _, _, _)
BestMatchLoop(space, k, idx1, dm, best) ==
    IF k > Len(space) THEN best
    ELSE LET d == MatchDistance(idx1, space[k], dm)
         IN  BestMatchLoop(space, k + 1, idx1, dm,
                 IF Improves(d, best.distance)
                 THEN [distance |-> d, found |-> TRUE, solution |-> space[k]]
                 ELSE best)

\* dict(zip(keys, vals)): zip stops at the shorter list, a later pair wins
DictZip(keys, vals) ==
    LET n == Min2(Len(keys), Len(vals))
    IN  [key \in {keys[i] : i \in 1..n} |->
            vals[CHOOSE i \in 1..n :
                    /\ keys[i] = key
                    /\ \A j \in 1..n : keys[j] = key => j <= i]]

\* the state of the search when the loop ends
BestMatch(idx1, idx2, dm) ==
    BestMatchLoop(MatchSpace(idx2, Len(idx1)), 1, idx1, dm,
                  [distance |-> Inf, found |-> FALSE, solution |-> <<>>])

\* inputs: indices1 = [0 .. r-1], indices2 any list of real indices and
\* placeholders, and a matrix with an entry for every pair the search reads
Indices1Set == {[i \in 1..r |-> i - 1] : r \in 0..MaxLen}

Indices2Set == SeqsUpTo({NoneIndex} \cup 0..(MaxLen - 1), MaxLen)

MatricesFor(idx1, idx2) ==
    [Range(idx1) -> [Range(idx2) \ {NoneIndex} -> Dists]]

\* the two worked examples of the specification
ExampleMatchInputs ==
    { [i1 |-> <<0, 1>>, i2 |-> <<0, 1>>,
       dm |-> [a \in {0, 1} |-> [b \in {0, 1} |-> IF a = b THEN 1 ELSE 5]]],
      [i1 |-> <<0>>, i2 |-> <<NoneIndex, 1>>,
       dm |-> [a \in {0} |-> [b \in {1} |-> 3]]] }

MatchInit ==
    /\ \/ /\ indices1 \in Indices1Set
          /\ indices2 \in Indices2Set
          /\ distance_matrix \in MatricesFor(indices1, indices2)
       \/ \E e \in ExampleMatchInputs :
              /\ indices1 = e.i1
              /\ indices2 = e.i2
              /\ distance_matrix = e.dm
    /\ match_pc = "call"
    /\ match_result = <<>>

MatchIdle ==
    /\ indices1 = <<>>
    /\ indices2 = <<>>
    /\ distance_matrix = <<>>
    /\ match_pc = "idle"
    /\ match_result = <<>>

\* assert best_match_solution is not None; return dict(zip(indices1, solution))
FindBestMatchReturn ==
    /\ match_pc = "call"
    /\ LET best == BestMatch(indices1, indices2, distance_matrix)
       IN  /\ best.found
           /\ match_result' = DictZip(indices1, best.solution)
    /\ match_pc' = "returned"
    /\ UNCHANGED <<indices1, indices2, distance_matrix>>
    /\ UNCHANGED <<flatten_vars, parse_vars, timeout_vars>>

\* the assert fails: no candidate was ever kept
FindBestMatchRaise ==
    /\ match_pc = "call"
    /\ ~BestMatch(indices1, indices2, distance_matrix).found
    /\ match_pc' = "raised"
    /\ UNCHANGED <<indices1, indices2, distance_matrix, match_result>>
    /\ UNCHANGED <<flatten_vars, parse_vars, timeout_vars>>

MatchNext == FindBestMatchReturn \/ FindBestMatchRaise


(***************************************************************************)
(* Nested structures                                                       *)
(***************************************************************************)
\* a node is a scalar, a mapping (keys[i] -> kids[i], keys distinct, in
\* insertion order) or a sequence (kids, keys unused)
Scalar(v) == [kind |-> "scalar", val |-> v, keys |-> <<>>, kids |-> <<>>]

Mapping(ks, vs) == [kind |-> "dict", val |-> "", keys |-> ks, kids |-> vs]

Sequence(vs) == [kind |-> "list", val |-> "", keys |-> <<>>, kids |-> vs]

\* path segments: a mapping key (a string) or a sequence index (an integer)
Key(k) == <<"key", k>>

Index(i) == <<"index", i>>

\* the value stored for an empty container
None == "None"

\* the key lists a mapping may have: non-empty, distinct, one order per set
KeyLists == {<<"x">>, <<"y">>, <<"x", "y">>} \cap SeqsUpTo(Keys, 2)

\* the structures of exactly n nodes / the lists of m structures with n
\* nodes in all
RECURSIVE Nodes(_), Forests(_, _)
Nodes(n) ==
    IF n = 1
    THEN {Scalar(v) : v \in Scalars} \cup {Mapping(<<>>, <<>>), Sequence(<<>>)}
    ELSE UNION {{Mapping(ks, f) : f \in Forests(n - 1, Len(ks))} : ks \in KeyLists}
         \cup UNION {{Sequence(f) : f \in Forests(n - 1, m)} : m \in 1..(n - 1)}

Forests(n, m) ==
    IF m = 0 THEN (IF n = 0 THEN {<<>>} ELSE {})
    ELSE UNION {{<<t>> \o f : t \in Nodes(k), f \in Forests(n - k, m - 1)} :
                   k \in 1..(n - m + 1)}

\* the mappings of at most n nodes: what flatten is given
Mappings(n) == UNION {{t \in Nodes(k) : t.kind = "dict"} : k \in 1..n}

(***************************************************************************)
(* flatten                                                                 *)
(***************************************************************************)
\* dict(items): one entry per key, at the place the key first came, with the
\* value it last had
RECURSIVE DictOfItems(_)
DictOfItems(items) ==
    IF items = <<>> THEN <<>>
    ELSE LET last == items[Len(items)]
             front == DictOfItems(SubSeq(items, 1, Len(items) - 1))
         IN  IF \E i \in 1..Len(front) : front[i][1] = last[1]
             THEN [i \in 1..Len(front) |->
                      IF front[i][1] = last[1] THEN last ELSE front[i]]
             ELSE Append(front, last)

\* dictionary.items() of a mapping node
ItemsOf(node) == [i \in 1..Len(node.keys) |-> <<Key(node.keys[i]), node.kids[i]>>]

\* flatten(dictionary, parent_key), dictionary given as its items: a
\* sequence of <<key, value>>; parent_key is <<>> for None
RECURSIVE flatten(_, _), FlattenList(_, _, _)
flatten(items_in, parent_key) ==
    LET Visit(item) ==
            LET new_key == parent_key \o <<item[1]>>
                value == item[2]
            IN  IF value.kind = "dict"
                THEN IF value.keys = <<>>
                     THEN <<<<new_key, None>>>>
                     ELSE flatten(ItemsOf(value), new_key)
                ELSE IF value.kind = "list"
                THEN IF Len(value.kids) # 0
                     THEN FlattenList(value.kids, 0, new_key)
                     ELSE <<<<new_key, None>>>>
                ELSE <<<<new_key, value.val>>>>
    IN  DictOfItems(Concat([i \in 1..Len(items_in) |-> Visit(items_in[i])]))

\* for k, v in enumerate(value): items.extend(flatten({k: v}, new_key).items())
FlattenList(values, k, new_key) ==
    IF values = <<>> THEN <<>>
    ELSE flatten(<<<<Index(k), Head(values)>>>>, new_key)
         \o FlattenList(Tail(values), k + 1, new_key)

FlattenIdle ==
    /\ dictionary = Mapping(<<>>, <<>>)
    /\ flatten_pc = "idle"
    /\ flatten_result = <<>>

FlattenInit ==
    /\ dictionary \in Mappings(MaxNodes)
    /\ flatten_pc = "call"
    /\ flatten_result = <<>>

\* flatten(dictionary)
Flatten ==
    /\ flatten_pc = "call"
    /\ flatten_result' = flatten(ItemsOf(dictionary), <<>>)
    /\ flatten_pc' = "returned"
    /\ UNCHANGED dictionary
    /\ UNCHANGED <<match_vars, parse_vars, timeout_vars>>

FlattenNext == Flatten


(***************************************************************************)
(* flat_deepdiff_entry                                                     *)
(***************************************************************************)
\* deepdiff.helper.NotPresent: the side of an entry that has no value
NotPresent == [kind |-> "notpresent", val |-> "", keys |-> <<>>, kids |-> <<>>]

\* the synthetic key a sequence is wrapped under
dummy_header == "DUMMYDUMMYDUMMY"

\* flat_deepdiff_entry(t, path_list): leaf path -> leaf value under t
flat_deepdiff_entry(t, path_list) ==
    IF t.kind = "dict"
    THEN LET t1 == flatten(ItemsOf(t), <<>>)
         IN  DictOfItems([i \in 1..Len(t1) |-> <<path_list \o t1[i][1], t1[i][2]>>])
    ELSE IF t.kind = "list"
    THEN LET t1 == flatten(<<<<Key(dummy_header), t>>>>, <<>>)
         IN  DictOfItems([i \in 1..Len(t1) |->
                 <<path_list \o Tail(t1[i][1]), t1[i][2]>>])
    ELSE IF t.kind = "notpresent"
    THEN <<<<path_list, None>>>>
    ELSE <<<<path_list, t.val>>>>

\* list(d.keys())
KeysOf(d) == [i \in 1..Len(d) |-> d[i][1]]

(***************************************************************************)
(* parse_deepdiff                                                          *)
(***************************************************************************)
\* the paths to the nodes below the root of a structure
RECURSIVE PathsBelow(_)
PathsBelow(node) ==
    LET Seg(i) == IF node.kind = "dict" THEN Key(node.keys[i]) ELSE Index(i - 1)
    IN  UNION {{<<Seg(i)>>} \cup {<<Seg(i)>> \o p : p \in PathsBelow(node.kids[i])} :
                  i \in 1..Len(node.kids)}

\* the value a path leads to
RECURSIVE ValueAt(_, _)
ValueAt(node, path) ==
    IF path = <<>> THEN node
    ELSE LET i == CHOOSE j \in 1..Len(node.kids) :
                      Head(path) = (IF node.kind = "dict" THEN Key(node.keys[j])
                                    ELSE Index(j - 1))
         IN  ValueAt(node.kids[i], Tail(path))

\* a DiffLevel: both sides' values and the paths to them
DiffLevel(v1, p1, v2, p2) == [t1 |-> v1, path1 |-> p1, t2 |-> v2, path2 |-> p2]

\* the entries a diff of a with b may report: a value of a gone from b, a
\* value of b new in b, a value of a changed into a value of b (under
\* ignore_order the two paths may differ), and the entry no diff should
\* hold, with neither side present
LevelsFor(a, b) ==
    {DiffLevel(ValueAt(a, p), p, NotPresent, p) : p \in PathsBelow(a)}
    \cup {DiffLevel(NotPresent, p, ValueAt(b, p), p) : p \in PathsBelow(b)}
    \cup {DiffLevel(ValueAt(a, p), p, ValueAt(b, q), q) :
              p \in PathsBelow(a), q \in PathsBelow(b)}
    \cup {DiffLevel(NotPresent, p, NotPresent, p) : p \in {<<>>} \cup PathsBelow(a)}

RECURSIVE NodeCount(_), NodeCountAll(_)
NodeCount(node) == 1 + NodeCountAll(node.kids)

NodeCountAll(nodes) ==
    IF nodes = <<>> THEN 0 ELSE NodeCount(Head(nodes)) + NodeCountAll(Tail(nodes))

NoResult == [raised |-> FALSE, deep_distance |-> 0,
             paths_added |-> <<>>, paths_removed |-> <<>>,
             paths_altered_1 |-> <<>>, paths_altered_2 |-> <<>>,
             leaf_paths_added |-> <<>>, leaf_paths_removed |-> <<>>,
             leaf_paths_altered_1 |-> <<>>, leaf_paths_altered_2 |-> <<>>]

\* faulty variant of ParseLevel: an entry with neither side present is passed over
ParseLevelSkipping(acc, value_altered_level) ==
    LET is_t1_none == value_altered_level.t1.kind = "notpresent"
        is_t2_none == value_altered_level.t2.kind = "notpresent"
        path_list_to_t1 == value_altered_level.path1
        path_list_to_t2 == value_altered_level.path2
        t1_leafs_from_root ==
            flat_deepdiff_entry(value_altered_level.t1, path_list_to_t1)
        t2_leafs_from_root ==
            flat_deepdiff_entry(value_altered_level.t2, path_list_to_t2)
    IN  IF is_t1_none /\ ~is_t2_none
        THEN [acc EXCEPT
                 !.paths_added = Append(@, path_list_to_t2),
                 !.leaf_paths_added = @ \o KeysOf(t2_leafs_from_root)]
        ELSE IF ~is_t1_none /\ is_t2_none
        THEN [acc EXCEPT
                 !.paths_removed = Append(@, path_list_to_t1),
                 !.leaf_paths_removed = @ \o KeysOf(t1_leafs_from_root)]
        ELSE IF ~is_t1_none /\ ~is_t2_none
        THEN [acc EXCEPT
                 !.paths_altered_1 = Append(@, path_list_to_t1),
                 !.paths_altered_2 = Append(@, path_list_to_t2),
                 !.leaf_paths_altered_1 = @ \o KeysOf(t1_leafs_from_root),
                 !.leaf_paths_altered_2 = @ \o KeysOf(t2_leafs_from_root)]
        ELSE acc

\* faulty variant of ParseLevel: the removed branch tests only the A side
ParseLevelRemovedFirst(acc, value_altered_level) ==
    LET is_t1_none == value_altered_level.t1.kind = "notpresent"
        is_t2_none == value_altered_level.t2.kind = "notpresent"
        path_list_to_t1 == value_altered_level.path1
        path_list_to_t2 == value_altered_level.path2
        t1_leafs_from_root ==
            flat_deepdiff_entry(value_altered_level.t1, path_list_to_t1)
        t2_leafs_from_root ==
            flat_deepdiff_entry(value_altered_level.t2, path_list_to_t2)
    IN  IF is_t1_none /\ ~is_t2_none
        THEN [acc EXCEPT
                 !.paths_added = Append(@, path_list_to_t2),
                 !.leaf_paths_added = @ \o KeysOf(t2_leafs_from_root)]
        ELSE IF ~is_t1_none
        THEN [acc EXCEPT
                 !.paths_removed = Append(@, path_list_to_t1),
                 !.leaf_paths_removed = @ \o KeysOf(t1_leafs_from_root)]
        ELSE IF ~is_t1_none /\ ~is_t2_none
        THEN [acc EXCEPT
                 !.paths_altered_1 = Append(@, path_list_to_t1),
                 !.paths_altered_2 = Append(@, path_list_to_t2),
                 !.leaf_paths_altered_1 = @ \o KeysOf(t1_leafs_from_root),
                 !.leaf_paths_altered_2 = @ \o KeysOf(t2_leafs_from_root)]
        ELSE [acc EXCEPT !.raised = TRUE]

\* the body of the loop over the entries of one report key
ParseLevel(acc, value_altered_level) ==
    LET is_t1_none == value_altered_level.t1.kind = "notpresent"
        is_t2_none == value_altered_level.t2.kind = "notpresent"
        path_list_to_t1 == value_altered_level.path1
        path_list_to_t2 == value_altered_level.path2
        t1_leafs_from_root ==
            flat_deepdiff_entry(value_altered_level.t1, path_list_to_t1)
        t2_leafs_from_root ==
            flat_deepdiff_entry(value_altered_level.t2, path_list_to_t2)
    IN  IF is_t1_none /\ ~is_t2_none
        THEN [acc EXCEPT
                 !.paths_added = Append(@, path_list_to_t2),
                 !.leaf_paths_added = @ \o KeysOf(t2_leafs_from_root)]
        ELSE IF ~is_t1_none /\ is_t2_none
        THEN [acc EXCEPT
                 !.paths_removed = Append(@, path_list_to_t1),
                 !.leaf_paths_removed = @ \o KeysOf(t1_leafs_from_root)]
        ELSE IF ~is_t1_none /\ ~is_t2_none
        THEN [acc EXCEPT
                 !.paths_altered_1 = Append(@, path_list_to_t1),
                 !.paths_altered_2 = Append(@, path_list_to_t2),
                 !.leaf_paths_altered_1 = @ \o KeysOf(t1_leafs_from_root),
                 !.leaf_paths_altered_2 = @ \o KeysOf(t2_leafs_from_root)]
        ELSE [acc EXCEPT !.raised = TRUE]

\* the loops over dd.to_dict(): the deep_distance item is copied, every
\* other item's entries go through the loop body until one raises
RECURSIVE ParseLevels(_, _)
ParseLevels(acc, levels) ==
    IF levels = <<>> \/ acc.raised THEN acc
    ELSE ParseLevels(ParseLevel(acc, Head(levels)), Tail(levels))

parse_deepdiff(report) ==
    ParseLevels([NoResult EXCEPT !.deep_distance = report.deep_distance],
                report.levels)

ParseIdle ==
    /\ root_t1 = Mapping(<<>>, <<>>)
    /\ root_t2 = Mapping(<<>>, <<>>)
    /\ dd = [deep_distance |-> 0, levels |-> <<>>]
    /\ parse_pc = "idle"
    /\ parse_result = NoResult

\* two structures of at most MaxNodes nodes in all, and a report about them
ParseInit ==
    /\ root_t1 \in Mappings(MaxNodes - 1)
    /\ root_t2 \in Mappings(MaxNodes - NodeCount(root_t1))
    /\ dd \in [deep_distance : DeepDistances,
               levels : SeqsUpTo(LevelsFor(root_t1, root_t2), MaxEntries)]
    /\ parse_pc = "call"
    /\ parse_result = NoResult

\* parse_deepdiff(dd) returns its tuple
ParseDeepdiffReturn ==
    /\ parse_pc = "call"
    /\ LET res == parse_deepdiff(dd)
       IN  /\ ~res.raised
           /\ parse_result' = res
    /\ parse_pc' = "returned"
    /\ UNCHANGED <<root_t1, root_t2, dd>>
    /\ UNCHANGED <<match_vars, flatten_vars, timeout_vars>>

\* parse_deepdiff(dd) raises ValueError
ParseDeepdiffRaise ==
    /\ parse_pc = "call"
    /\ parse_deepdiff(dd).raised
    /\ parse_pc' = "raised"
    /\ UNCHANGED <<root_t1, root_t2, dd, parse_result>>
    /\ UNCHANGED <<match_vars, flatten_vars, timeout_vars>>

ParseNext == ParseDeepdiffReturn \/ ParseDeepdiffRaise

(***************************************************************************)
(* timeout                                                                 *)
(***************************************************************************)
\* The wrapper runs in the main thread.  SIGALRM arrives when the timer runs
\* out, at any point of the wrapper; signal_handler then runs before the
\* interrupted code takes its next step (a call in progress, such as
\* signal.alarm(0), ends first) and raises TimeoutError at that point.
TimeoutIdle ==
    /\ seconds = 0
    /\ func_left = 0
    /\ func_end = "return"
    /\ wrapper_pc = "idle"
    /\ timer = 0
    /\ sig_pending = FALSE
    /\ pending_exit = "none"
    /\ outcome = "none"
    /\ expired_at = "never"
    /\ completed_in_time = FALSE

TimeoutInit ==
    /\ seconds \in 1..MaxSeconds
    /\ func_left \in 0..MaxWork
    /\ func_end \in {"return", "raise", "raise TimeoutError"}
    /\ wrapper_pc = "start"
    /\ timer = 0
    /\ sig_pending = FALSE
    /\ pending_exit = "none"
    /\ outcome = "none"
    /\ expired_at = "never"
    /\ completed_in_time = FALSE

OtherUnchanged == UNCHANGED <<match_vars, flatten_vars, parse_vars>>

\* signal.signal(signal.SIGALRM, signal_handler)
SetHandler ==
    /\ wrapper_pc = "start"
    /\ wrapper_pc' = "handler set"
    /\ UNCHANGED <<seconds, func_left, func_end, timer, sig_pending,
                   pending_exit, outcome, expired_at, completed_in_time>>
    /\ OtherUnchanged

\* signal.setitimer(signal.ITIMER_REAL, seconds)
SetItimer ==
    /\ wrapper_pc = "handler set"
    /\ timer' = seconds
    /\ wrapper_pc' = "armed"
    /\ UNCHANGED <<seconds, func_left, func_end, sig_pending,
                   pending_exit, outcome, expired_at, completed_in_time>>
    /\ OtherUnchanged

\* try: result = func(*args, **kwargs): the call starts
CallFunc ==
    /\ wrapper_pc = "armed"
    /\ ~sig_pending
    /\ wrapper_pc' = "in func"
    /\ UNCHANGED <<seconds, func_left, func_end, timer, sig_pending,
                   pending_exit, outcome, expired_at, completed_in_time>>
    /\ OtherUnchanged

\* the wrapped function runs one step
FuncWork ==
    /\ wrapper_pc = "in func"
    /\ ~sig_pending
    /\ func_left > 0
    /\ func_left' = func_left - 1
    /\ UNCHANGED <<seconds, func_end, wrapper_pc, timer, sig_pending,
                   pending_exit, outcome, expired_at, completed_in_time>>
    /\ OtherUnchanged

\* the wrapped function returns; the wrapper is still inside the try block
FuncReturn ==
    /\ wrapper_pc = "in func"
    /\ ~sig_pending
    /\ func_left = 0
    /\ func_end = "return"
    /\ wrapper_pc' = "func returned"
    /\ completed_in_time' = (expired_at = "never")
    /\ UNCHANGED <<seconds, func_left, func_end, timer, sig_pending,
                   pending_exit, outcome, expired_at>>
    /\ OtherUnchanged

\* result = ... is stored and the try block is left for the finally block
LeaveTry ==
    /\ wrapper_pc = "func returned"
    /\ ~sig_pending
    /\ pending_exit' = "result"
    /\ wrapper_pc' = "finally"
    /\ UNCHANGED <<seconds, func_left, func_end, timer, sig_pending,
                   outcome, expired_at, completed_in_time>>
    /\ OtherUnchanged

\* the wrapped function raises something that is no TimeoutError: no except
\* clause matches, the finally block runs with the exception in flight
FuncRaise ==
    /\ wrapper_pc = "in func"
    /\ ~sig_pending
    /\ func_left = 0
    /\ func_end = "raise"
    /\ pending_exit' = "other exception"
    /\ wrapper_pc' = "finally"
    /\ UNCHANGED <<seconds, func_left, func_end, timer, sig_pending,
                   outcome, expired_at, completed_in_time>>
    /\ OtherUnchanged

\* the wrapped function raises a TimeoutError of its own:
\* except TimeoutError: return default
FuncRaiseTimeoutError ==
    /\ wrapper_pc = "in func"
    /\ ~sig_pending
    /\ func_left = 0
    /\ func_end = "raise TimeoutError"
    /\ pending_exit' = "default"
    /\ wrapper_pc' = "finally"
    /\ UNCHANGED <<seconds, func_left, func_end, timer, sig_pending,
                   outcome, expired_at, completed_in_time>>
    /\ OtherUnchanged

\* the wall clock advances one tick; the timer, if armed, runs down and
\* SIGALRM arrives when it reaches 0
Tick ==
    /\ timer > 0
    /\ timer' = timer - 1
    /\ sig_pending' = (sig_pending \/ timer = 1)
    /\ expired_at' = IF timer = 1 THEN wrapper_pc ELSE expired_at
    /\ UNCHANGED <<seconds, func_left, func_end, wrapper_pc,
                   pending_exit, outcome, completed_in_time>>
    /\ OtherUnchanged

\* signal_handler runs inside the try block (in the function or right after
\* it returned): except TimeoutError: return default
HandlerInTry ==
    /\ sig_pending
    /\ wrapper_pc \in {"in func", "func returned"}
    /\ sig_pending' = FALSE
    /\ pending_exit' = "default"
    /\ wrapper_pc' = "finally"
    /\ UNCHANGED <<seconds, func_left, func_end, timer,
                   outcome, expired_at, completed_in_time>>
    /\ OtherUnchanged

\* signal_handler runs outside the try block (before it, or in the finally
\* block): the TimeoutError leaves the wrapper
HandlerOutsideTry ==
    /\ sig_pending
    /\ wrapper_pc \in {"armed", "finally", "disarmed"}
    /\ sig_pending' = FALSE
    /\ outcome' = "TimeoutError"
    /\ wrapper_pc' = "done"
    /\ UNCHANGED <<seconds, func_left, func_end, timer,
                   pending_exit, expired_at, completed_in_time>>
    /\ OtherUnchanged

\* finally: signal.alarm(0)
Alarm0 ==
    /\ wrapper_pc = "finally"
    /\ timer' = 0
    /\ wrapper_pc' = "disarmed"
    /\ UNCHANGED <<seconds, func_left, func_end, sig_pending,
                   pending_exit, outcome, expired_at, completed_in_time>>
    /\ OtherUnchanged

\* the wrapper returns result or default, or lets the exception through
WrapperExit ==
    /\ wrapper_pc = "disarmed"
    /\ ~sig_pending
    /\ outcome' = pending_exit
    /\ wrapper_pc' = "done"
    /\ UNCHANGED <<seconds, func_left, func_end, timer, sig_pending,
                   pending_exit, expired_at, completed_in_time>>
    /\ OtherUnchanged

TimeoutNext ==
    \/ SetHandler
    \/ SetItimer
    \/ CallFunc
    \/ FuncWork
    \/ FuncReturn
    \/ LeaveTry
    \/ FuncRaise
    \/ FuncRaiseTimeoutError
    \/ Tick
    \/ HandlerInTry
    \/ HandlerOutsideTry
    \/ Alarm0
    \/ WrapperExit

(***************************************************************************)
(* Specifications: one per operation, the others idle                      *)
(***************************************************************************)
InitMatch == MatchInit /\ FlattenIdle /\ ParseIdle /\ TimeoutIdle

SpecMatch == InitMatch /\ [][MatchNext]_vars

InitFlatten == FlattenInit /\ MatchIdle /\ ParseIdle /\ TimeoutIdle

SpecFlatten == InitFlatten /\ [][FlattenNext]_vars

InitParse == ParseInit /\ MatchIdle /\ FlattenIdle /\ TimeoutIdle

SpecParse == InitParse /\ [][ParseNext]_vars

InitTimeout == TimeoutInit /\ MatchIdle /\ FlattenIdle /\ ParseIdle

SpecTimeout == InitTimeout /\ [][TimeoutNext]_vars

(***************************************************************************)
(* Claims about find_best_match                                            *)
(***************************************************************************)
\* an assignment as the claims describe it: one position of indices2 for
\* every position of indices1, no position of indices2 taken twice
Assignments(r, n) ==
    {p \in [1..r -> 1..n] : \A a, b \in 1..r : a # b => p[a] # p[b]}

RECURSIVE CostUpTo(_, _)
CostUpTo(p, k) ==
    IF k = 0 THEN 0
    ELSE CostUpTo(p, k - 1)
         + (IF indices2[p[k]] = NoneIndex THEN 0
            ELSE distance_matrix[indices1[k]][indices2[p[k]]])

TotalCost(p) == CostUpTo(p, Len(indices1))

\* p comes before q in the enumeration order of the permutations
LexBefore(p, q) ==
    \E k \in 1..Len(indices1) :
        /\ p[k] < q[k]
        /\ \A j \in 1..(k - 1) : p[j] = q[j]

\* every assignment with its total cost
Costed ==
    {<<p, TotalCost(p)>> : p \in Assignments(Len(indices1), Len(indices2))}

Cheapest ==
    LET PC == Costed
    IN  {pc[1] : pc \in {x \in PC : \A y \in PC : x[2] <= y[2]}}

\* the assignments that cost no more than any other and come before every
\* other of the same cost (there is exactly one unless there is none at all)
FirstCheapest ==
    LET PC == Costed
    IN  {pc[1] : pc \in {x \in PC : \A y \in PC :
                            \/ x[2] < y[2]
                            \/ x[2] = y[2] /\ (y[1] = x[1] \/ LexBefore(x[1], y[1]))}}

AsMapping(p) ==
    [key \in Range(indices1) |->
        indices2[p[CHOOSE k \in 1..Len(indices1) : indices1[k] = key]]]

\* C1: with len(indices2) >= len(indices1), find_best_match returns, and
\* what it returns is the assignment of minimal total cost (a placeholder
\* pair costing 0), the first one in permutation order among the minimal
C1_BestMatchOptimal ==
    Len(indices2) >= Len(indices1) =>
        /\ match_pc # "raised"
        /\ match_pc = "returned" =>
               /\ Cardinality(FirstCheapest) = 1
               /\ \A p \in FirstCheapest : match_result = AsMapping(p)

\* a returned search over two elements where two different assignments tie
\* at the minimum, one of them using the placeholder
C1_Witness ==
    /\ match_pc = "returned"
    /\ Len(indices1) = 2
    /\ Cardinality(Cheapest) >= 2
    /\ \E q \in Cheapest : AsMapping(q) # match_result
    /\ \E i \in DOMAIN match_result : match_result[i] = NoneIndex
    /\ \A p \in FirstCheapest : match_result = AsMapping(p)

\* the call of the placeholder example: indices1 = [0], indices2 = [None, 1],
\* distance_matrix[0][1] = 3
PlaceholderExample ==
    /\ indices1 = <<0>>
    /\ indices2 = <<NoneIndex, 1>>
    /\ distance_matrix[0][1] = 3

\* C2 as stated: in the placeholder example the result is {0: 1}
C2_PrefersRealIndex ==
    (PlaceholderExample /\ match_pc = "returned") => match_result[0] = 1

\* C2, amended: the search minimises cost only and does not prefer a real
\* index: a single element offered the placeholder is paired with a real
\* index only if that index is at distance 0; in the placeholder example the
\* result is {0: None}
C2_PlaceholderWins ==
    /\ (PlaceholderExample /\ match_pc = "returned") =>
           match_result[0] = NoneIndex
    /\ ( /\ match_pc = "returned"
         /\ Len(indices1) = 1
         /\ NoneIndex \in Range(indices2) ) =>
           \/ match_result[indices1[1]] = NoneIndex
           \/ distance_matrix[indices1[1]][match_result[indices1[1]]] = 0

C2_Witness ==
    /\ PlaceholderExample
    /\ match_pc = "returned"
    /\ match_result[0] = NoneIndex

C4_TooFewCandidatesRaises ==
    (Len(indices2) < Len(indices1) /\ match_pc # "call") =>
        /\ match_pc = "raised"
        /\ match_result = <<>>

C4_Witness ==
    /\ Len(indices2) < Len(indices1)
    /\ Len(indices2) > 0
    /\ match_pc = "raised"
    /\ match_result = <<>>

(***************************************************************************)
(* Claims about flatten                                                    *)
(***************************************************************************)
IsPrefix(p, q) == Len(p) <= Len(q) /\ SubSeq(q, 1, Len(p)) = p

\* the paths of the scalars and of the empty containers of a structure
RECURSIVE ScalarPaths(_, _), EmptyPaths(_, _)
ScalarPaths(node, path) ==
    IF node.kind = "scalar" THEN {path}
    ELSE UNION {ScalarPaths(node.kids[i],
                    Append(path, IF node.kind = "dict" THEN Key(node.keys[i])
                                 ELSE Index(i - 1))) :
                   i \in 1..Len(node.kids)}

EmptyPaths(node, path) ==
    IF node.kind = "scalar" THEN {}
    ELSE IF node.kids = <<>> THEN {path}
    ELSE UNION {EmptyPaths(node.kids[i],
                    Append(path, IF node.kind = "dict" THEN Key(node.keys[i])
                                 ELSE Index(i - 1))) :
                   i \in 1..Len(node.kids)}

\* C5: flatten yields one entry per scalar plus one per empty mapping or
\* sequence, the argument itself included, each empty container as a
\* None-valued entry at its own path
C5_LeafCountConservation ==
    flatten_pc = "returned" =>
        /\ Len(flatten_result) =
               Cardinality(ScalarPaths(dictionary, <<>>))
               + Cardinality(EmptyPaths(dictionary, <<>>))
        /\ \A p \in EmptyPaths(dictionary, <<>>) :
               <<p, None>> \in Range(flatten_result)

(***************************************************************************)
(* Claims about parse_deepdiff and flat_deepdiff_entry                     *)
(***************************************************************************)
IsAdded(l) == l.t1 = NotPresent /\ l.t2 # NotPresent

IsRemoved(l) == l.t1 # NotPresent /\ l.t2 = NotPresent

IsAltered(l) == l.t1 # NotPresent /\ l.t2 # NotPresent

IsNeither(l) == l.t1 = NotPresent /\ l.t2 = NotPresent

Path1Of(ls) == [i \in 1..Len(ls) |-> ls[i].path1]

Path2Of(ls) == [i \in 1..Len(ls) |-> ls[i].path2]

\* C6: when parse_deepdiff returns, every entry is in exactly one class:
\* the added entries' B paths are paths_added, the removed entries' A paths
\* are paths_removed, the altered entries' paths are paths_altered_1 and
\* paths_altered_2, and the three counts add up to the number of entries
C6_ClassificationComplete ==
    parse_pc = "returned" =>
        /\ Len(dd.levels) = Len(parse_result.paths_added)
                            + Len(parse_result.paths_removed)
                            + Len(parse_result.paths_altered_1)
        /\ parse_result.paths_added = Path2Of(SelectSeq(dd.levels, IsAdded))
        /\ parse_result.paths_removed = Path1Of(SelectSeq(dd.levels, IsRemoved))
        /\ parse_result.paths_altered_1 = Path1Of(SelectSeq(dd.levels, IsAltered))
        /\ parse_result.paths_altered_2 = Path2Of(SelectSeq(dd.levels, IsAltered))

\* a returned report of two entries of different classes, one altered
C6_Witness ==
    /\ parse_pc = "returned"
    /\ Len(dd.levels) = 2
    /\ IsAltered(dd.levels[1])
    /\ IsRemoved(dd.levels[2])
    /\ Len(parse_result.paths_altered_1) = 1
    /\ Len(parse_result.paths_removed) = 1

\* the leaf paths flattening a whole structure yields at or below a path
LeafsUnder(root, path) ==
    {k \in Range(KeysOf(flatten(ItemsOf(root), <<>>))) : IsPrefix(path, k)}

\* C7: the leaf paths of the altered entries are the leaf paths the whole
\* A structure flattens to at or below the entries' A paths, and the same
\* for B
C7_AlteredLeafsAreSubtreeLeafs ==
    parse_pc = "returned" =>
        /\ Range(parse_result.leaf_paths_altered_1) =
               UNION {LeafsUnder(root_t1, dd.levels[i].path1) :
                         i \in {j \in 1..Len(dd.levels) : IsAltered(dd.levels[j])}}
        /\ Range(parse_result.leaf_paths_altered_2) =
               UNION {LeafsUnder(root_t2, dd.levels[i].path2) :
                         i \in {j \in 1..Len(dd.levels) : IsAltered(dd.levels[j])}}

\* C8: a report with an entry whose two sides are both NotPresent makes
\* parse_deepdiff raise; nothing is returned
C8_NeitherPresentRaises ==
    ( /\ parse_pc # "call"
      /\ \E i \in 1..Len(dd.levels) : IsNeither(dd.levels[i]) ) =>
        /\ parse_pc = "raised"
        /\ parse_result = NoResult

\* a raise on a report whose bad entry follows a well-formed one
C8_Witness ==
    /\ parse_pc = "raised"
    /\ Len(dd.levels) = 2
    /\ IsAltered(dd.levels[1])
    /\ IsNeither(dd.levels[2])

\* C10: flat_deepdiff_entry gives every side of every entry a non-empty
\* mapping with keys under the side's path, so every added and every
\* removed entry leaves at least one leaf path
C10_EveryEntryHasLeafs ==
    parse_pc = "returned" =>
        \A i \in 1..Len(dd.levels) :
            LET l == dd.levels[i]
                leafs1 == KeysOf(flat_deepdiff_entry(l.t1, l.path1))
                leafs2 == KeysOf(flat_deepdiff_entry(l.t2, l.path2))
            IN  /\ leafs1 # <<>>
                /\ leafs2 # <<>>
                /\ \A k \in Range(leafs1) : IsPrefix(l.path1, k)
                /\ \A k \in Range(leafs2) : IsPrefix(l.path2, k)
                /\ IsAdded(l) =>
                       \E k \in Range(parse_result.leaf_paths_added) :
                           IsPrefix(l.path2, k)
                /\ IsRemoved(l) =>
                       \E k \in Range(parse_result.leaf_paths_removed) :
                           IsPrefix(l.path1, k)

(***************************************************************************)
(* Claims about timeout                                                    *)
(***************************************************************************)
\* C9: the wrapper returns default when the deadline expired while the
\* function was running, the function's result when the function completed
\* before the deadline, and leaves no timer armed and no signal pending
C9_TimeoutContract ==
    wrapper_pc = "done" =>
        /\ expired_at = "in func" => outcome = "default"
        /\ completed_in_time => outcome = "result"
        /\ timer = 0 /\ ~sig_pending

====
